---------------------------- MODULE Spec2Model ----------------------------
(***************************************************************************)
(* Model of P_Seperator.py: the Figma colour-theme extraction pipeline.    *)
(*                                                                         *)
(* Python strings are modelled as sequences of one-character strings, so   *)
(* that split, startswith, formatting and comparison are computed and not  *)
(* assumed.  Python's None is the one-element sequence None, which no      *)
(* string equals (its element is not a single character).  A dict is a     *)
(* function; a dict whose iteration order matters (themes) is a sequence   *)
(* of [num, keys] entries in insertion order.                              *)
(***************************************************************************)
EXTENDS Integers, Sequences, FiniteSets, TLC

VARIABLES
    pc,            \* position of the operation under study
    color,         \* color_to_hex: the colour dict (channel -> numerator over Den)
    hex,           \* color_to_hex: the returned string
    fills,         \* process_fills: the paint list
    fills_result,  \* process_fills: the returned (solid, gradient) pair
    frame_name,    \* parse_frame_name: the node name
    prefix,        \* extract_themes: the prefix argument
    parsed,        \* parse_frame_name: the returned triple or None
    nodes,         \* ThemeExtractor.nodes: the loaded documents and their trees
    doc_idx,       \* extract_themes: position of the loop over self.nodes.items()
    stack,         \* extract_themes: the activation records of traverse_children
    visited,       \* history: the nodes whose loop body has run, in order
    themes,        \* the ThemeTable (insertion-ordered dict)
    rows,          \* projector name -> what that projector returned or raised
    headers,       \* write_csv: the fieldnames
    data,          \* write_csv: the rows handed in
    file,          \* write_csv: the file's lines, or NoFile
    error,         \* the exception the operation raised, or "none"
    tables,        \* main: prefix -> the table extract_themes returned for it
    step,          \* main: the write_csv statement main is at (1..5, then 6)
    attempted,     \* history: the output files whose statement main has begun
    outputs        \* main: output file name -> the file on disk, or NoFile

vars == <<pc, color, hex, fills, fills_result, frame_name, prefix, parsed,
          nodes, doc_idx, stack, visited, themes, rows, headers,
          data, file, error, tables, step, attempted, outputs>>

mainVars == <<tables, step, attempted, outputs>>

-----------------------------------------------------------------------------
(* Python values *)

None == << "<None>" >>

\* dict.get(k, default)
Get(d, k, default) == IF k \in DOMAIN d THEN d[k] ELSE default

\* the empty dict {}
EmptyDict == << >>

\* Python truthiness of a str / tuple / None value: None and empty are falsy
Truthy(v) == v # None /\ v # << >>

\* ASCII 32..95 and 97..122 in code-point order
AsciiLow ==
    << " ", "!", "\"", "#", "$", "%", "&", "'", "(", ")", "*", "+", ",", "-",
       ".", "/", "0", "1", "2", "3", "4", "5", "6", "7", "8", "9", ":", ";",
       "<", "=", ">", "?", "@", "A", "B", "C", "D", "E", "F", "G", "H", "I",
       "J", "K", "L", "M", "N", "O", "P", "Q", "R", "S", "T", "U", "V", "W",
       "X", "Y", "Z", "[", "\\", "]", "^", "_" >>

AsciiLetters ==
    << "a", "b", "c", "d", "e", "f", "g", "h", "i", "j", "k", "l", "m", "n",
       "o", "p", "q", "r", "s", "t", "u", "v", "w", "x", "y", "z" >>

\* ord(c)
CodePoint(c) ==
    IF \E i \in 1..Len(AsciiLow) : AsciiLow[i] = c
    THEN 31 + (CHOOSE i \in 1..Len(AsciiLow) : AsciiLow[i] = c)
    ELSE 96 + (CHOOSE i \in 1..Len(AsciiLetters) : AsciiLetters[i] = c)

\* s < t for Python str: first differing code point, a proper prefix is smaller
RECURSIVE StrLess(_, _)
StrLess(s, t) ==
    IF t = << >> THEN FALSE
    ELSE IF s = << >> THEN TRUE
    ELSE IF Head(s) # Head(t) THEN CodePoint(Head(s)) < CodePoint(Head(t))
    ELSE StrLess(Tail(s), Tail(t))

\* s.startswith(p)
StartsWith(s, p) == Len(s) >= Len(p) /\ SubSeq(s, 1, Len(p)) = p

\* position of the first occurrence of character c in s, 0 when there is none
RECURSIVE Find(_, _)
Find(s, c) ==
    IF s = << >> THEN 0
    ELSE IF Head(s) = c THEN 1
    ELSE LET r == Find(Tail(s), c) IN IF r = 0 THEN 0 ELSE r + 1

\* s.split(c, maxsplit): at most maxsplit cuts, left to right
RECURSIVE Split(_, _, _)
Split(s, c, maxsplit) ==
    LET i == Find(s, c) IN
    IF maxsplit = 0 \/ i = 0 THEN << s >>
    ELSE << SubSeq(s, 1, i - 1) >> \o Split(SubSeq(s, i + 1, Len(s)), c, maxsplit - 1)

-----------------------------------------------------------------------------
(* ColorResolver: color_to_hex and process_fills *)

\* A channel value is the rational n / Den.
Den == 510

\* round(p / q) for p >= 0, q > 0: Python rounds a tie to the even neighbour
Round(p, q) ==
    LET f == p \div q
        r == p % q
    IN  IF 2 * r < q THEN f
        ELSE IF 2 * r > q THEN f + 1
        ELSE IF f % 2 = 0 THEN f ELSE f + 1

HexDigits == << "0", "1", "2", "3", "4", "5", "6", "7", "8", "9",
                "A", "B", "C", "D", "E", "F" >>

\* format(v, "X") for v >= 0
RECURSIVE FormatX(_)
FormatX(v) ==
    IF v < 16 THEN << HexDigits[v + 1] >>
    ELSE FormatX(v \div 16) \o << HexDigits[(v % 16) + 1] >>

\* format(v, "02X"): zero-padded to width 2, never truncated
Format02X(v) ==
    LET s == FormatX(v) IN IF Len(s) < 2 THEN << "0" >> \o s ELSE s

\* the four rounded channels, lines 9-12
ChannelByte(c, ch, default) == Round(Get(c, ch, default) * 255, Den)

color_to_hex_rgba(c) ==
    << "0", "x" >>
        \o Format02X(ChannelByte(c, "r", 0))
        \o Format02X(ChannelByte(c, "g", 0))
        \o Format02X(ChannelByte(c, "b", 0))
        \o Format02X(ChannelByte(c, "a", Den))

color_to_hex(c) ==
    << "0", "x" >>
        \o Format02X(ChannelByte(c, "a", Den))
        \o Format02X(ChannelByte(c, "r", 0))
        \o Format02X(ChannelByte(c, "g", 0))
        \o Format02X(ChannelByte(c, "b", 0))

\* the paint kinds process_fills resolves
IsSolid(fill) == fill.type = "SOLID"
IsGradient(fill) == fill.type \in {"GRADIENT_LINEAR", "GRADIENT_RADIAL"}
GradientStops(fill) == Get(fill, "gradientStops", << >>)

process_fills_prefer_solid(fs) ==
    IF \E i \in 1..Len(fs) : IsSolid(fs[i])
    THEN LET i == CHOOSE i \in 1..Len(fs) : IsSolid(fs[i])
         IN  << color_to_hex(fs[i].color), None >>
    ELSE IF \E i \in 1..Len(fs) : IsGradient(fs[i]) /\ Len(GradientStops(fs[i])) >= 2
    THEN LET i == CHOOSE i \in 1..Len(fs) :
                     IsGradient(fs[i]) /\ Len(GradientStops(fs[i])) >= 2
             st == GradientStops(fs[i])
         IN  << None, << color_to_hex(st[1].color), color_to_hex(st[Len(st)].color) >> >>
    ELSE << None, None >>

\* the for loop of lines 18-28, one paint per unfolding
RECURSIVE process_fills(_)
process_fills(fs) ==
    IF fs = << >> THEN << None, None >>
    ELSE LET fill == Head(fs) IN
         IF IsSolid(fill) THEN << color_to_hex(fill.color), None >>
         ELSE IF IsGradient(fill) /\ Len(GradientStops(fill)) >= 2
         THEN LET st == GradientStops(fill)
              IN  << None, << color_to_hex(st[1].color), color_to_hex(st[Len(st)].color) >> >>
         ELSE process_fills(Tail(fs))

-----------------------------------------------------------------------------
(* NodeNameParser: parse_frame_name, nested in extract_themes (pfx is the     *)
(* enclosing call's prefix)                                                   *)

parse_frame_name_rsplit(name, pfx) ==
    LET dash      == Find(name, "-")
        working   == IF dash = 0 THEN name ELSE SubSeq(name, 1, dash - 1)
        localized == IF dash = 0 THEN None ELSE SubSeq(name, dash + 1, Len(name))
        parts     == Split(working, "_", Len(working))
    IN  IF StartsWith(working, pfx) /\ Len(parts) >= 2
        THEN << parts[1 + 1],
                IF Len(parts) > 2 THEN parts[Len(parts)] ELSE None,
                localized >>
        ELSE None

parse_frame_name(name, pfx) ==
    LET cut       == Split(name, "-", 1)
        has_dash  == Find(name, "-") # 0
        working   == IF has_dash THEN cut[1] ELSE name
        localized == IF has_dash THEN cut[2] ELSE None
        parts     == Split(working, "_", 2)
    IN  IF StartsWith(working, pfx) /\ Len(parts) >= 2
        THEN << parts[1 + 1],
                IF Len(parts) > 2 THEN parts[2 + 1] ELSE None,
                localized >>
        ELSE None

-----------------------------------------------------------------------------
(* ThemeTable: the dict of dicts built by extract_themes *)

\* d[k] = v on a dict
SetKey(d, k, v) == [x \in (DOMAIN d) \cup {k} |-> IF x = k THEN v ELSE d[x]]

\* the position of theme number num in the table, 0 when it is not a key
RECURSIVE ThemeIndex(_, _)
ThemeIndex(t, num) ==
    IF t = << >> THEN 0
    ELSE IF t[Len(t)].num = num THEN Len(t)
    ELSE ThemeIndex(SubSeq(t, 1, Len(t) - 1), num)

\* themes[num], for a num that is a key
Keys(t, num) == t[ThemeIndex(t, num)].keys

\* lines 68-80: the record built from one node
ThemeRecord(localized_name, fs, strokes) ==
    LET f == process_fills(fs)
        s == process_fills(strokes)
    IN  [localized_name    |-> localized_name,
         solid_color       |-> f[1],
         gradient_colors   |-> f[2],
         s_solid_color     |-> s[1],
         s_gradient_colors |-> s[2]]

UpsertKeepFirst(t, num, key, rec) ==
    LET i == ThemeIndex(t, num) IN
    IF i = 0 THEN Append(t, [num |-> num, keys |-> SetKey(EmptyDict, key, rec)])
    ELSE IF key \in DOMAIN t[i].keys THEN t
    ELSE [t EXCEPT ![i].keys = SetKey(@, key, rec)]

\* lines 72-80: themes.setdefault(num, {}) then themes[num][key] = rec
Upsert(t, num, key, rec) ==
    LET i == ThemeIndex(t, num) IN
    IF i = 0 THEN Append(t, [num |-> num, keys |-> SetKey(EmptyDict, key, rec)])
    ELSE [t EXCEPT ![i].keys = SetKey(@, key, rec)]

-----------------------------------------------------------------------------
(* TreeWalker: extract_themes over the loaded documents                     *)
(*                                                                          *)
(* nodes = [parent, info]: the keys of self.nodes are Documents; the frames *)
(* below them are numbered FirstFrame.. and a frame's parent is a document  *)
(* or an earlier frame.  A node's children list holds its children in       *)
(* ascending number, so document order is not numeric order.                *)

Documents == << 1, 2 >>
FirstFrame == Len(Documents) + 1
MaxNodes == 3

Frames(nd) == DOMAIN nd.parent

\* node x's "children" list
RECURSIVE ChildrenFrom(_, _, _)
ChildrenFrom(nd, x, i) ==
    IF i \notin Frames(nd) THEN << >>
    ELSE (IF nd.parent[i] = x THEN << i >> ELSE << >>) \o ChildrenFrom(nd, x, i + 1)

Children(nd, x) == ChildrenFrom(nd, x, FirstFrame)

\* "children" in node
HasChildren(nd, x) == Children(nd, x) # << >>

Name(nd, x) == Get(nd.info[x], "name", << >>)
Fills(nd, x) == Get(nd.info[x], "fills", << >>)
Strokes(nd, x) == Get(nd.info[x], "strokes", << >>)

\* lines 64-80: the loop body's effect on themes for child x
VisitThemes(t, nd, x, pfx) ==
    LET p == parse_frame_name(Name(nd, x), pfx) IN
    IF p # None
    THEN Upsert(t, p[1], p[2], ThemeRecord(p[3], Fills(nd, x), Strokes(nd, x)))
    ELSE t

DescendUnlessMatched(stk, x) ==
    IF /\ HasChildren(nodes, x)
       /\ x \in Frames(nodes) => parse_frame_name(Name(nodes, x), prefix) = None
    THEN Append(stk, [children |-> Children(nodes, x), i |-> 1])
    ELSE stk

\* lines 81-82: the recursive call pushes an activation of traverse_children
Descend(stk, x) ==
    IF HasChildren(nodes, x)
    THEN Append(stk, [children |-> Children(nodes, x), i |-> 1])
    ELSE stk

Top == stack[Len(stack)]

\* lines 84-87: one iteration of the loop over self.nodes.items()
NextDocument ==
    /\ pc = "walk"
    /\ stack = << >>
    /\ doc_idx <= Len(Documents)
    /\ doc_idx' = doc_idx + 1
    /\ stack' = Descend(stack, Documents[doc_idx])
    /\ UNCHANGED <<pc, color, hex, fills, fills_result, frame_name, prefix,
                   parsed, nodes, visited, themes, rows, headers,
                   data, file, error>>
    /\ UNCHANGED mainVars

\* lines 62-82: one iteration of the loop over children
VisitChild ==
    /\ pc = "walk"
    /\ stack # << >>
    /\ Top.i <= Len(Top.children)
    /\ LET x == Top.children[Top.i] IN
        /\ themes' = VisitThemes(themes, nodes, x, prefix)
        /\ visited' = Append(visited, x)
        /\ stack' = Descend([stack EXCEPT ![Len(stack)].i = @ + 1], x)
    /\ UNCHANGED <<pc, color, hex, fills, fills_result, frame_name, prefix,
                   parsed, nodes, doc_idx, rows, headers, data, file,
                   error>>
    /\ UNCHANGED mainVars

\* line 62: the children are exhausted and traverse_children returns
ReturnFromChildren ==
    /\ pc = "walk"
    /\ stack # << >>
    /\ Top.i > Len(Top.children)
    /\ stack' = SubSeq(stack, 1, Len(stack) - 1)
    /\ UNCHANGED <<pc, color, hex, fills, fills_result, frame_name, prefix,
                   parsed, nodes, doc_idx, visited, themes, rows,
                   headers, data, file, error>>
    /\ UNCHANGED mainVars

\* line 89: return themes
ReturnThemes ==
    /\ pc = "walk"
    /\ stack = << >>
    /\ doc_idx > Len(Documents)
    /\ pc' = "done"
    /\ UNCHANGED <<color, hex, fills, fills_result, frame_name, prefix,
                   parsed, nodes, doc_idx, stack, visited, themes, rows, headers, data, file, error>>
    /\ UNCHANGED mainVars

-----------------------------------------------------------------------------
(* ThemeProjector: the five prepare_* functions of CSVWriter *)

KBC == << "K", "B", "C" >>
KBG == << "K", "B", "G" >>
KBR == << "K", "B", "R" >>
KBB == << "K", "B", "B" >>
KYT == << "K", "Y", "T" >>
PR == << "P", "R" >>
KYBG == << "K", "Y", "B", "G" >>
White == << "0", "x", "F", "F", "F", "F", "F", "F" >>

\* f"{tag}_{theme_number}"
IdOf(tag, num) == tag \o << "_" >> \o num

\* keys.get(slot, {}).get(field)
SlotField(keys, slot, field) == Get(Get(keys, slot, EmptyDict), field, None)

\* keys.get(None, {}).get("localized_name") or f"{tag}_{theme_number}"
ThemeName(tag, num, keys) ==
    LET n == SlotField(keys, None, "localized_name")
    IN  IF Truthy(n) THEN n ELSE IdOf(tag, num)

\* lines 108-115
ColorRow(num, keys) ==
    [ID                      |-> IdOf(KBC, num),
     ThemeName               |-> ThemeName(KBC, num, keys),
     KeyTextColor            |-> SlotField(keys, KYT, "solid_color"),
     PredictionBarColor      |-> SlotField(keys, PR, "solid_color"),
     KeyBackgroundColor      |-> SlotField(keys, KYBG, "solid_color"),
     KeyboardBackgroundColor |-> SlotField(keys, None, "solid_color")]

\* lines 123 and 142: keys.get(None, {}).get("gradient_colors", (None, None))
Background(keys) ==
    Get(Get(keys, None, EmptyDict), "gradient_colors", << None, None >>)

\* background[i] raises TypeError when background is None
BackgroundRaises(keys) == Background(keys) = None

GradientRowUnreversed(num, keys) ==
    [ID                           |-> IdOf(KBG, num),
     ThemeName                    |-> ThemeName(KBG, num, keys),
     KeyTextColor                 |-> SlotField(keys, KYT, "solid_color"),
     KeyBackgroundColor           |-> SlotField(keys, KYBG, "solid_color"),
     KeyboardBackgroundStartColor |-> Background(keys)[0 + 1],
     KeyboardBackgroundEndColor   |-> Background(keys)[1 + 1],
     PredictionBarStartColor      |-> SlotField(keys, PR, "solid_color"),
     PredictionBarEndColor        |-> SlotField(keys, PR, "solid_color")]

\* lines 125-134, for keys on which background[i] does not raise
GradientRow(num, keys) ==
    [ID                           |-> IdOf(KBG, num),
     ThemeName                    |-> ThemeName(KBG, num, keys),
     KeyTextColor                 |-> SlotField(keys, KYT, "solid_color"),
     KeyBackgroundColor           |-> SlotField(keys, KYBG, "solid_color"),
     KeyboardBackgroundStartColor |-> Background(keys)[1 + 1],
     KeyboardBackgroundEndColor   |-> Background(keys)[0 + 1],
     PredictionBarStartColor      |-> SlotField(keys, PR, "solid_color"),
     PredictionBarEndColor        |-> SlotField(keys, PR, "solid_color")]

\* lines 144-153, for keys on which background[i] does not raise
RadialRow(num, keys) ==
    [ID                           |-> IdOf(KBR, num),
     ThemeName                    |-> ThemeName(KBR, num, keys),
     KeyTextColor                 |-> SlotField(keys, KYT, "solid_color"),
     KeyBackgroundColor           |-> SlotField(keys, KYBG, "solid_color"),
     KeyboardBackgroundStartColor |-> Background(keys)[0 + 1],
     KeyboardBackgroundEndColor   |-> Background(keys)[1 + 1],
     PredictionBarStartColor      |-> SlotField(keys, PR, "solid_color"),
     PredictionBarEndColor        |-> SlotField(keys, PR, "solid_color")]

\* lines 161-163: the stroke pair, replaced by white when it is falsy
\* (None is falsy; the default (None, None) is a non-empty tuple and is not)
KeyStroke(keys) ==
    LET key_stroke == Get(Get(keys, KYBG, EmptyDict), "s_gradient_colors",
                          << None, None >>)
    IN  IF key_stroke = None \/ key_stroke = << >>
        THEN << White, White >>
        ELSE key_stroke

\* lines 165-175
BorderGradientRow(num, keys) ==
    [ID                      |-> IdOf(KBB, num),
     ThemeName               |-> ThemeName(KBB, num, keys),
     KeyTextColor            |-> SlotField(keys, KYT, "solid_color"),
     KeyBackgroundColor      |-> SlotField(keys, KYBG, "solid_color"),
     KeyboardBackground      |-> SlotField(keys, None, "solid_color"),
     KeyBorderStartColor     |-> KeyStroke(keys)[0 + 1],
     KeyBorderEndColor       |-> KeyStroke(keys)[1 + 1],
     PredictionBarStartColor |-> SlotField(keys, PR, "solid_color"),
     PredictionBarEndColor   |-> SlotField(keys, PR, "solid_color")]

\* lines 183-193
BorderSolidRow(num, keys) ==
    [ID                      |-> IdOf(KBB, num),
     ThemeName               |-> ThemeName(KBB, num, keys),
     KeyTextColor            |-> SlotField(keys, KYT, "solid_color"),
     KeyBackgroundColor      |-> SlotField(keys, KYBG, "solid_color"),
     KeyboardBackground      |-> SlotField(keys, None, "solid_color"),
     KeyBorderStartColor     |-> SlotField(keys, KYBG, "s_solid_color"),
     KeyBorderEndColor       |-> SlotField(keys, KYBG, "s_solid_color"),
     PredictionBarStartColor |-> SlotField(keys, PR, "solid_color"),
     PredictionBarEndColor   |-> SlotField(keys, PR, "solid_color")]

\* what a call returns: the list of rows, or the exception that ended it
Returned(rs) == [error |-> "none", rows |-> rs]
Raised(e) == [error |-> e, rows |-> << >>]

\* the loops over themes.items(), in insertion order
prepare_color_theme(t) ==
    Returned([i \in 1..Len(t) |-> ColorRow(t[i].num, t[i].keys)])

prepare_gradient_theme(t) ==
    IF \E i \in 1..Len(t) : BackgroundRaises(t[i].keys)
    THEN Raised("TypeError")
    ELSE Returned([i \in 1..Len(t) |-> GradientRow(t[i].num, t[i].keys)])

prepare_radial_theme(t) ==
    IF \E i \in 1..Len(t) : BackgroundRaises(t[i].keys)
    THEN Raised("TypeError")
    ELSE Returned([i \in 1..Len(t) |-> RadialRow(t[i].num, t[i].keys)])

prepare_border_theme_gradient(t) ==
    Returned([i \in 1..Len(t) |-> BorderGradientRow(t[i].num, t[i].keys)])

prepare_border_theme_solid(t) ==
    Returned([i \in 1..Len(t) |-> BorderSolidRow(t[i].num, t[i].keys)])

\* the fieldnames main passes with each projector's rows
ColorHeaders ==
    << "ID", "ThemeName", "KeyTextColor", "PredictionBarColor",
       "KeyBackgroundColor", "KeyboardBackgroundColor" >>
GradientHeaders ==
    << "ID", "ThemeName", "KeyTextColor", "KeyBackgroundColor",
       "KeyboardBackgroundStartColor", "KeyboardBackgroundEndColor",
       "PredictionBarStartColor", "PredictionBarEndColor" >>
BorderHeaders ==
    << "ID", "ThemeName", "KeyTextColor", "KeyBackgroundColor",
       "KeyboardBackground", "KeyBorderStartColor", "KeyBorderEndColor",
       "PredictionBarStartColor", "PredictionBarEndColor" >>

HeadersOf(p) ==
    CASE p = "Color" -> ColorHeaders
      [] p \in {"Gradient", "Radial"} -> GradientHeaders
      [] OTHER -> BorderHeaders

\* projector p has been called
Ran(p) == p \in DOMAIN rows

\* The projectors are independent functions of the table: each is called once,
\* in any order, and rows keeps what each call returned or raised.
PrepareColorTheme ==
    /\ pc = "project"
    /\ ~Ran("Color")
    /\ rows' = SetKey(rows, "Color", prepare_color_theme(themes))
    /\ UNCHANGED <<pc, color, hex, fills, fills_result, frame_name, prefix,
                   parsed, nodes, doc_idx, stack, visited, themes, headers,
                   data, file, error>>
    /\ UNCHANGED mainVars

PrepareGradientTheme ==
    /\ pc = "project"
    /\ ~Ran("Gradient")
    /\ rows' = SetKey(rows, "Gradient", prepare_gradient_theme(themes))
    /\ UNCHANGED <<pc, color, hex, fills, fills_result, frame_name, prefix,
                   parsed, nodes, doc_idx, stack, visited, themes, headers,
                   data, file, error>>
    /\ UNCHANGED mainVars

PrepareRadialTheme ==
    /\ pc = "project"
    /\ ~Ran("Radial")
    /\ rows' = SetKey(rows, "Radial", prepare_radial_theme(themes))
    /\ UNCHANGED <<pc, color, hex, fills, fills_result, frame_name, prefix,
                   parsed, nodes, doc_idx, stack, visited, themes, headers,
                   data, file, error>>
    /\ UNCHANGED mainVars

PrepareBorderThemeGradient ==
    /\ pc = "project"
    /\ ~Ran("BorderThemeGradient")
    /\ rows' = SetKey(rows, "BorderThemeGradient", prepare_border_theme_gradient(themes))
    /\ UNCHANGED <<pc, color, hex, fills, fills_result, frame_name, prefix,
                   parsed, nodes, doc_idx, stack, visited, themes, headers,
                   data, file, error>>
    /\ UNCHANGED mainVars

PrepareBorderThemeSolid ==
    /\ pc = "project"
    /\ ~Ran("BorderThemeSolid")
    /\ rows' = SetKey(rows, "BorderThemeSolid", prepare_border_theme_solid(themes))
    /\ UNCHANGED <<pc, color, hex, fills, fills_result, frame_name, prefix,
                   parsed, nodes, doc_idx, stack, visited, themes, headers,
                   data, file, error>>
    /\ UNCHANGED mainVars

-----------------------------------------------------------------------------
(* TableWriter: CSVWriter.write_csv *)

NoFile == [header |-> << >>, lines |-> << >>, exists |-> FALSE]

StrLessShortlex(s, t) ==
    \/ Len(s) < Len(t)
    \/ Len(s) = Len(t) /\ StrLess(s, t)

\* the comparison sorted() applies to two keys (str.__lt__)
KeyLess(s, t) == StrLess(s, t)

\* list.sort is stable: x goes behind every element whose key is not greater
RECURSIVE InsertByID(_, _)
InsertByID(s, x) ==
    IF s = << >> THEN << x >>
    ELSE IF KeyLess(x.ID, s[Len(s)].ID)
         THEN Append(InsertByID(SubSeq(s, 1, Len(s) - 1), x), s[Len(s)])
         ELSE Append(s, x)

\* line 97: sorted(data, key=lambda x: x["ID"]), for rows that all have an ID
RECURSIVE SortedByID(_)
SortedByID(d) ==
    IF d = << >> THEN << >>
    ELSE InsertByID(SortedByID(SubSeq(d, 1, Len(d) - 1)), d[Len(d)])

\* line 97: x["ID"] raises KeyError on a row without that key
SortRaises(d) == \E i \in 1..Len(d) : "ID" \notin DOMAIN d[i]

Range(s) == {s[i] : i \in 1..Len(s)}

\* csv.DictWriter (extrasaction="raise"): a key outside fieldnames raises ValueError
HasExtraKey(row, hdrs) == ~((DOMAIN row) \subseteq Range(hdrs))

\* the csv writer emits None as the empty string
Cell(v) == IF v = None THEN << >> ELSE v

DictToListPresentOnly(row, hdrs) ==
    LET present == SelectSeq(hdrs, LAMBDA h : h \in DOMAIN row)
    IN  [j \in 1..Len(present) |-> Cell(row[present[j]])]

\* csv.DictWriter._dict_to_list: rowdict.get(key, restval) with restval = ""
DictToList(row, hdrs) == [j \in 1..Len(hdrs) |-> Cell(Get(row, hdrs[j], << >>))]

\* the rows before the first one DictWriter refuses
RECURSIVE Written(_, _)
Written(d, hdrs) ==
    IF d = << >> \/ HasExtraKey(Head(d), hdrs) THEN << >>
    ELSE << DictToList(Head(d), hdrs) >> \o Written(Tail(d), hdrs)

\* lines 96-101
write_csv ==
    /\ pc = "call"
    /\ pc' = "return"
    /\ IF SortRaises(data)
       THEN /\ error' = "KeyError"
            /\ file' = file
       ELSE LET sorted_data == SortedByID(data) IN
            /\ file' = [header |-> headers,
                        lines  |-> Written(sorted_data, headers),
                        exists |-> TRUE]
            /\ error' = IF \E i \in 1..Len(data) : HasExtraKey(data[i], headers)
                        THEN "ValueError"
                        ELSE "none"
    /\ UNCHANGED <<color, hex, fills, fills_result, frame_name, prefix,
                   parsed, nodes, doc_idx, stack, visited, themes, rows,
                   headers, data>>
    /\ UNCHANGED mainVars

-----------------------------------------------------------------------------
(* The pure functions, applied to the argument the initial state holds *)

ColorToHex ==
    /\ pc = "call"
    /\ pc' = "return"
    /\ hex' = color_to_hex(color)
    /\ UNCHANGED <<color, fills, fills_result, frame_name, prefix, parsed,
                   nodes, doc_idx, stack, visited, themes, rows, headers,
                   data, file, error>>
    /\ UNCHANGED mainVars

ProcessFills ==
    /\ pc = "call"
    /\ pc' = "return"
    /\ fills_result' = process_fills(fills)
    /\ UNCHANGED <<color, hex, fills, frame_name, prefix, parsed, nodes,
                   doc_idx, stack, visited, themes, rows, headers, data,
                   file, error>>
    /\ UNCHANGED mainVars

ParseFrameName ==
    /\ pc = "call"
    /\ pc' = "return"
    /\ parsed' = parse_frame_name(frame_name, prefix)
    /\ UNCHANGED <<color, hex, fills, fills_result, frame_name, prefix,
                   nodes, doc_idx, stack, visited, themes, rows, headers,
                   data, file, error>>
    /\ UNCHANGED mainVars

-----------------------------------------------------------------------------
(* Inputs *)

SeqsUpTo(S, n) == UNION {[1..k -> S] : k \in 0..n}

Channels == {"r", "g", "b", "a"}

\* numerators over Den: 0, the ties 0.5 / 1.5 / 127.5 / 254.5 (at Den = 510), 1
ChannelSamples == {0, 1, 3, Den \div 2, Den - 1, Den}

\* colour dicts, any channel possibly missing
Colors == UNION {[S -> ChannelSamples] : S \in SUBSET Channels}

ColorA == [r |-> Den, g |-> 0, b |-> 0, a |-> Den]
ColorB == [r |-> 0, g |-> Den \div 2, b |-> Den]
ColorC == [r |-> 1, g |-> 3, b |-> Den, a |-> Den \div 2]

Solid(c) == [type |-> "SOLID", color |-> c]
Stop(c) == [color |-> c]
Linear(stops) == [type |-> "GRADIENT_LINEAR", gradientStops |-> stops]
Radial(stops) == [type |-> "GRADIENT_RADIAL", gradientStops |-> stops]

PaintSamples ==
    { Solid(ColorA),
      Solid(ColorB),
      Linear(<< Stop(ColorA), Stop(ColorB), Stop(ColorC) >>),
      Radial(<< Stop(ColorC), Stop(ColorA) >>),
      Linear(<< Stop(ColorA) >>),
      [type |-> "GRADIENT_RADIAL"],
      [type |-> "IMAGE"] }

MaxPaints == 3

\* node names over a small alphabet, and the three names of the spec's examples
NameAlphabet == {"K", "_", "-", "1"}
MaxNameLen == 4
KBC_12_KYT_en == << "K", "B", "C", "_", "1", "2", "_", "K", "Y", "T", "-", "e", "n" >>
KBC_7 == << "K", "B", "C", "_", "7" >>
Other_1_X == << "O", "t", "h", "e", "r", "_", "1", "_", "X" >>
NameSamples == SeqsUpTo(NameAlphabet, MaxNameLen) \cup {KBC_12_KYT_en, KBC_7, Other_1_X}
PrefixSamples == { << "K" >>, KBC }

\* the nodes a tree is built from: two that parse to the same pair under KBC,
\* one that parses to another pair under KBC, one that matches only KBB; each
\* is a non-matching node under the other prefix
NodeSamples ==
    { [name |-> IdOf(KBC, << "3" >>),
       fills |-> << Solid(ColorA) >>,
       strokes |-> << Radial(<< Stop(ColorC), Stop(ColorA) >>) >>],
      [name |-> IdOf(KBC, << "3" >>),
       fills |-> << Linear(<< Stop(ColorA), Stop(ColorB), Stop(ColorC) >>) >>],
      [name |-> IdOf(KBC, << "1", "0", "_", "K", "Y", "B", "G", "-", "e", "n" >>),
       fills |-> << Solid(ColorB) >>,
       strokes |-> << Solid(ColorC) >>],
      [name |-> IdOf(KBB, << "3" >>),
       fills |-> << Solid(ColorC) >>] }

WalkPrefixes == { KBC, KBB }

FrameIds(n) == FirstFrame .. (FirstFrame + n - 1)

ParentMaps(n) ==
    { p \in [FrameIds(n) -> 1 .. (FirstFrame + n - 2)] : \A i \in FrameIds(n) : p[i] < i }

\* the trees of at most max frames
Trees(max) ==
    UNION { { [parent |-> p, info |-> f] :
                p \in ParentMaps(n), f \in [FrameIds(n) -> NodeSamples] } :
            n \in 0..max }

\* ThemeTables: records as the walk builds them, under theme numbers and slots
ThemeNumbers == { << "1", "0" >>, << "2" >> }
Slots == { None, KYT, PR, KYBG }

RootRecords ==
    { ThemeRecord(None, << Solid(ColorA) >>, << >>),
      ThemeRecord(<< "e", "n" >>,
                  << Linear(<< Stop(ColorA), Stop(ColorB), Stop(ColorC) >>) >>, << >>),
      ThemeRecord(<< >>, << >>, << >>) }

KeyBackgroundRecords ==
    { ThemeRecord(None, << Solid(ColorB) >>, << Solid(ColorC) >>),
      ThemeRecord(None, << Solid(ColorB) >>,
                  << Radial(<< Stop(ColorC), Stop(ColorA) >>) >>),
      ThemeRecord(None, << >>, << >>) }

SlotRecords(slot) ==
    IF slot = None THEN RootRecords
    ELSE IF slot = KYBG THEN KeyBackgroundRecords
    ELSE IF slot = KYT THEN { ThemeRecord(None, << Solid(ColorC) >>, << >>) }
    ELSE { ThemeRecord(None, << Solid(ColorA) >>, << >>) }

KeyDicts ==
    UNION { { d \in [S -> UNION {SlotRecords(s) : s \in Slots}] :
                \A s \in S : d[s] \in SlotRecords(s) } :
            S \in (SUBSET Slots) \ {{}} }

TableSamples ==
    {<< >>}
    \cup { << [num |-> n, keys |-> k] >> : n \in ThemeNumbers, k \in KeyDicts }
    \cup { << [num |-> n[1], keys |-> k1], [num |-> n[2], keys |-> k2] >> :
             n \in {m \in ThemeNumbers \X ThemeNumbers : m[1] # m[2]},
             k1 \in KeyDicts, k2 \in KeyDicts }

\* rows handed to write_csv: any key may be missing, and a key outside the
\* fieldnames may be present
CsvHeaders == << "ID", "ThemeName", "KeyTextColor" >>
RowKeys == {"ID", "ThemeName", "KeyTextColor", "Extra"}
KBC_10 == IdOf(KBC, << "1", "0" >>)
KBC_2 == IdOf(KBC, << "2" >>)
KBC_1 == IdOf(KBC, << "1" >>)

RowValues(k) ==
    IF k = "ID" THEN {KBC_10, KBC_2, KBC_1}
    ELSE IF k = "ThemeName" THEN {None, << "e", "n" >>}
    ELSE IF k = "KeyTextColor" THEN {color_to_hex(ColorA)}
    ELSE {<< "x" >>}

RowSamples ==
    UNION { { r \in [S -> UNION {RowValues(k) : k \in RowKeys}] :
                \A k \in S : r[k] \in RowValues(k) } :
            S \in SUBSET RowKeys }

MaxRows == 2

-----------------------------------------------------------------------------
(* main: the five write_csv statements, in the order of the source *)

KBSB == << "K", "B", "S", "B" >>

\* lines 201-205: the prefixes main extracts a table for
MainPrefixes == { KBC, KBG, KBR, KBB, KBSB }

\* the file names of lines 208, 212, 216, 220 and 224, in statement order
OutputFiles ==
    << "ColorTheme.csv", "GradientTheme.csv", "RadialTheme.csv",
       "BorderThemeGradient.csv", "BorderThemeSolid.csv" >>

\* what the operating system answers to os.makedirs (line 96) and to open
\* (line 98): both succeed, or one of them raises OSError
IoOutcomes == { "none", "makedirs", "open" }

\* write_csv as a function of its arguments, of the file already on disk and
\* of the I/O outcome: the exception it raises and the file it leaves
CSVWriter_write_csv(old, hdrs, d, io) ==
    IF io = "makedirs" THEN [error |-> "OSError", file |-> old]
    ELSE IF SortRaises(d) THEN [error |-> "KeyError", file |-> old]
    ELSE IF io = "open" THEN [error |-> "OSError", file |-> old]
    ELSE [error |-> IF \E i \in 1..Len(d) : HasExtraKey(d[i], hdrs)
                    THEN "ValueError"
                    ELSE "none",
          file  |-> [header |-> hdrs,
                     lines  |-> Written(SortedByID(d), hdrs),
                     exists |-> TRUE]]

\* one statement of main: the projector's rows are an argument of write_csv,
\* so a projector that raises does so before write_csv is entered
Statement(result, old, hdrs, io) ==
    IF result.error # "none" THEN [error |-> result.error, file |-> old]
    ELSE CSVWriter_write_csv(old, hdrs, result.rows, io)

PropagateHandledPerFile(e) == "main"

\* main has no try/except around its statements: an exception one of them
\* raises leaves main, and the interpreter exits
Propagate(e) == IF e = "none" THEN "main" ELSE "aborted"

\* lines 208-210
WriteColorTheme ==
    /\ pc = "main"
    /\ step = 1
    /\ \E io \in IoOutcomes :
         LET o == Statement(prepare_color_theme(tables[KBC]),
                            outputs[OutputFiles[1]], ColorHeaders, io)
         IN  /\ outputs' = [outputs EXCEPT ![OutputFiles[1]] = o.file]
             /\ error' = o.error
             /\ pc' = Propagate(o.error)
             /\ step' = IF Propagate(o.error) = "main" THEN step + 1 ELSE step
    /\ attempted' = attempted \cup {OutputFiles[1]}
    /\ UNCHANGED <<color, hex, fills, fills_result, frame_name, prefix,
                   parsed, nodes, doc_idx, stack, visited, themes, rows,
                   headers, data, file, tables>>

\* lines 212-214
WriteGradientTheme ==
    /\ pc = "main"
    /\ step = 2
    /\ \E io \in IoOutcomes :
         LET o == Statement(prepare_gradient_theme(tables[KBG]),
                            outputs[OutputFiles[2]], GradientHeaders, io)
         IN  /\ outputs' = [outputs EXCEPT ![OutputFiles[2]] = o.file]
             /\ error' = o.error
             /\ pc' = Propagate(o.error)
             /\ step' = IF Propagate(o.error) = "main" THEN step + 1 ELSE step
    /\ attempted' = attempted \cup {OutputFiles[2]}
    /\ UNCHANGED <<color, hex, fills, fills_result, frame_name, prefix,
                   parsed, nodes, doc_idx, stack, visited, themes, rows,
                   headers, data, file, tables>>

\* lines 216-218
WriteRadialTheme ==
    /\ pc = "main"
    /\ step = 3
    /\ \E io \in IoOutcomes :
         LET o == Statement(prepare_radial_theme(tables[KBR]),
                            outputs[OutputFiles[3]], GradientHeaders, io)
         IN  /\ outputs' = [outputs EXCEPT ![OutputFiles[3]] = o.file]
             /\ error' = o.error
             /\ pc' = Propagate(o.error)
             /\ step' = IF Propagate(o.error) = "main" THEN step + 1 ELSE step
    /\ attempted' = attempted \cup {OutputFiles[3]}
    /\ UNCHANGED <<color, hex, fills, fills_result, frame_name, prefix,
                   parsed, nodes, doc_idx, stack, visited, themes, rows,
                   headers, data, file, tables>>

\* lines 220-222
WriteBorderThemeGradient ==
    /\ pc = "main"
    /\ step = 4
    /\ \E io \in IoOutcomes :
         LET o == Statement(prepare_border_theme_gradient(tables[KBB]),
                            outputs[OutputFiles[4]], BorderHeaders, io)
         IN  /\ outputs' = [outputs EXCEPT ![OutputFiles[4]] = o.file]
             /\ error' = o.error
             /\ pc' = Propagate(o.error)
             /\ step' = IF Propagate(o.error) = "main" THEN step + 1 ELSE step
    /\ attempted' = attempted \cup {OutputFiles[4]}
    /\ UNCHANGED <<color, hex, fills, fills_result, frame_name, prefix,
                   parsed, nodes, doc_idx, stack, visited, themes, rows,
                   headers, data, file, tables>>

\* lines 224-226
WriteBorderThemeSolid ==
    /\ pc = "main"
    /\ step = 5
    /\ \E io \in IoOutcomes :
         LET o == Statement(prepare_border_theme_solid(tables[KBSB]),
                            outputs[OutputFiles[5]], BorderHeaders, io)
         IN  /\ outputs' = [outputs EXCEPT ![OutputFiles[5]] = o.file]
             /\ error' = o.error
             /\ pc' = Propagate(o.error)
             /\ step' = IF Propagate(o.error) = "main" THEN step + 1 ELSE step
    /\ attempted' = attempted \cup {OutputFiles[5]}
    /\ UNCHANGED <<color, hex, fills, fills_result, frame_name, prefix,
                   parsed, nodes, doc_idx, stack, visited, themes, rows,
                   headers, data, file, tables>>

\* line 228: print("CSV files have been created successfully ...")
PrintCreated ==
    /\ pc = "main"
    /\ step = Len(OutputFiles) + 1
    /\ pc' = "done"
    /\ UNCHANGED <<color, hex, fills, fills_result, frame_name, prefix,
                   parsed, nodes, doc_idx, stack, visited, themes, rows,
                   headers, data, file, error>>
    /\ UNCHANGED mainVars

\* tables extract_themes can return: none, or one theme with only a root frame
MainTables ==
    { << >> }
    \cup { << [num |-> << "2" >>, keys |-> [s \in {None} |-> r]] >> :
              r \in RootRecords }

-----------------------------------------------------------------------------
(* Specifications: one per operation, each starting from its inputs *)

HexIdle == color = EmptyDict /\ hex = None
FillsIdle == fills = << >> /\ fills_result = None
ParseIdle == frame_name = << >> /\ parsed = None
WalkIdle ==
    /\ nodes = [parent |-> << >>, info |-> << >>]
    /\ doc_idx = 1
    /\ stack = << >>
    /\ visited = << >>
CsvIdle == headers = << >> /\ data = << >> /\ file = NoFile /\ error = "none"
MainIdle ==
    /\ tables = EmptyDict
    /\ step = 1
    /\ attempted = {}
    /\ outputs = EmptyDict

InitHex ==
    /\ pc = "call"
    /\ color \in Colors /\ hex = None
    /\ FillsIdle /\ ParseIdle /\ WalkIdle /\ CsvIdle
    /\ prefix = << >> /\ themes = << >> /\ rows = EmptyDict
    /\ MainIdle

InitFills ==
    /\ pc = "call"
    /\ fills \in SeqsUpTo(PaintSamples, MaxPaints) /\ fills_result = None
    /\ HexIdle /\ ParseIdle /\ WalkIdle /\ CsvIdle
    /\ prefix = << >> /\ themes = << >> /\ rows = EmptyDict
    /\ MainIdle

InitParse ==
    /\ pc = "call"
    /\ frame_name \in NameSamples /\ prefix \in PrefixSamples /\ parsed = None
    /\ HexIdle /\ FillsIdle /\ WalkIdle /\ CsvIdle
    /\ themes = << >> /\ rows = EmptyDict
    /\ MainIdle

\* line 44: themes = {}
InitWalk ==
    /\ pc = "walk"
    /\ nodes \in Trees(MaxNodes) /\ prefix \in WalkPrefixes
    /\ doc_idx = 1 /\ stack = << >> /\ visited = << >> /\ themes = << >>
    /\ HexIdle /\ FillsIdle /\ ParseIdle /\ CsvIdle
    /\ rows = EmptyDict
    /\ MainIdle

InitProject ==
    /\ pc = "project"
    /\ themes \in TableSamples /\ rows = EmptyDict
    /\ HexIdle /\ FillsIdle /\ ParseIdle /\ WalkIdle /\ CsvIdle
    /\ prefix = << >>
    /\ MainIdle

InitCsv ==
    /\ pc = "call"
    /\ headers = CsvHeaders /\ data \in SeqsUpTo(RowSamples, MaxRows)
    /\ file = NoFile /\ error = "none"
    /\ HexIdle /\ FillsIdle /\ ParseIdle /\ WalkIdle
    /\ prefix = << >> /\ themes = << >> /\ rows = EmptyDict
    /\ MainIdle

\* lines 201-205 have run: main holds the five tables and has written nothing
InitMain ==
    /\ pc = "main"
    /\ tables \in [MainPrefixes -> MainTables]
    /\ step = 1
    /\ attempted = {}
    /\ outputs = [f \in Range(OutputFiles) |-> NoFile]
    /\ HexIdle /\ FillsIdle /\ ParseIdle /\ WalkIdle /\ CsvIdle
    /\ prefix = << >> /\ themes = << >> /\ rows = EmptyDict

NextWalk == NextDocument \/ VisitChild \/ ReturnFromChildren \/ ReturnThemes

NextProject ==
    \/ PrepareColorTheme
    \/ PrepareGradientTheme
    \/ PrepareRadialTheme
    \/ PrepareBorderThemeGradient
    \/ PrepareBorderThemeSolid

SpecHex == InitHex /\ [][ColorToHex]_vars
SpecFills == InitFills /\ [][ProcessFills]_vars
SpecParse == InitParse /\ [][ParseFrameName]_vars
SpecWalk == InitWalk /\ [][NextWalk]_vars
SpecProject == InitProject /\ [][NextProject]_vars
SpecCsv == InitCsv /\ [][write_csv]_vars

NextMain ==
    \/ WriteColorTheme
    \/ WriteGradientTheme
    \/ WriteRadialTheme
    \/ WriteBorderThemeGradient
    \/ WriteBorderThemeSolid
    \/ PrintCreated

SpecMain == InitMain /\ [][NextMain]_vars

-----------------------------------------------------------------------------
(* Claims about color_to_hex, process_fills and parse_frame_name *)

\* decoding: the value of a hexadecimal digit (uppercase only) and of a digit pair
IsHexDigit(c) == \E v \in 1..Len(HexDigits) : HexDigits[v] = c
HexValue(c) == (CHOOSE v \in 1..Len(HexDigits) : HexDigits[v] = c) - 1
ByteAt(s, i) == 16 * HexValue(s[i]) + HexValue(s[i + 1])

\* k is n / Den * 255 rounded to the nearest integer, a tie going to the even one
IsRounded(k, n) ==
    LET d == k * Den - 255 * n
        dist == IF d < 0 THEN -d ELSE d
    IN  /\ 2 * dist <= Den
        /\ (2 * dist = Den => k % 2 = 0)

\* C7: color_to_hex returns "0x" and eight uppercase hex digits, ten characters,
\* whose digit pairs decode, in the order alpha, red, green, blue, to the
\* rounded channels; a colour without an alpha channel gets alpha FF.
C7_HexFormatRoundTrip ==
    pc = "return" =>
        /\ Len(hex) = 10
        /\ hex[1] = "0" /\ hex[2] = "x"
        /\ \A i \in 3..10 : IsHexDigit(hex[i])
        /\ "a" \in DOMAIN color => IsRounded(ByteAt(hex, 3), color["a"])
        /\ "a" \notin DOMAIN color => hex[3] = "F" /\ hex[4] = "F"
        /\ "r" \in DOMAIN color => IsRounded(ByteAt(hex, 5), color["r"])
        /\ "g" \in DOMAIN color => IsRounded(ByteAt(hex, 7), color["g"])
        /\ "b" \in DOMAIN color => IsRounded(ByteAt(hex, 9), color["b"])

\* a colour whose four bytes all differ, two of them rounded from a tie
C7_Witness ==
    /\ pc = "return"
    /\ DOMAIN color = Channels
    /\ color["a"] = Den \div 2 /\ color["r"] = Den /\ color["g"] = 0 /\ color["b"] = 3
    /\ hex = << "0", "x", "8", "0", "F", "F", "0", "0", "0", "2" >>

\* a paint process_fills returns on
Resolves(fill) ==
    \/ fill.type = "SOLID"
    \/ /\ fill.type \in {"GRADIENT_LINEAR", "GRADIENT_RADIAL"}
       /\ "gradientStops" \in DOMAIN fill
       /\ Len(fill.gradientStops) >= 2

FirstResolving(fs) ==
    CHOOSE i \in 1..Len(fs) : Resolves(fs[i]) /\ \A j \in 1..(i - 1) : ~Resolves(fs[j])

\* C5: process_fills returns what the first SOLID paint or gradient of two or
\* more stops gives: (hex, None) for a SOLID, (None, (hex of first stop, hex of
\* last stop)) for a gradient; (None, None) when no paint resolves; never both.
C5_FirstResolvingPaintWins ==
    pc = "return" =>
        /\ ~(fills_result[1] # None /\ fills_result[2] # None)
        /\ IF \E i \in 1..Len(fills) : Resolves(fills[i])
           THEN LET f == fills[FirstResolving(fills)] IN
                IF f.type = "SOLID"
                THEN fills_result = << color_to_hex(f.color), None >>
                ELSE fills_result =
                        << None,
                           << color_to_hex(f.gradientStops[1].color),
                              color_to_hex(f.gradientStops[Len(f.gradientStops)].color) >> >>
           ELSE fills_result = << None, None >>

\* a one-stop gradient and an image are skipped, the three-stop gradient after them
\* is returned with its middle stop dropped, and the SOLID behind it is not reached
C5_Witness ==
    /\ pc = "return"
    /\ Len(fills) = 3
    /\ fills[1] \in {Linear(<< Stop(ColorA) >>), [type |-> "IMAGE"]}
    /\ fills[2] = Linear(<< Stop(ColorA), Stop(ColorB), Stop(ColorC) >>)
    /\ fills[3] = Solid(ColorB)
    /\ fills_result = << None, << color_to_hex(ColorA), color_to_hex(ColorC) >> >>

NoChar(s, c) == \A i \in 1..Len(s) : s[i] # c

\* the part of the name before its first "-", the whole name when it has none
WorkingName(name) ==
    IF NoChar(name, "-") THEN name
    ELSE LET i == CHOOSE i \in 1..Len(name) :
                     name[i] = "-" /\ NoChar(SubSeq(name, 1, i - 1), "-")
         IN  SubSeq(name, 1, i - 1)

\* C6: parse_frame_name cuts the name at its first "-" (the right part is
\* localizedName, None without "-"); it returns None when the working name does
\* not start with the prefix or holds no "_"; otherwise the working name reads
\* part0 _ themeNumber [_ keySlot] with no "_" in part0 and themeNumber, keySlot
\* keeping any further "_", and keySlot is None when there is no second "_".
C6_ParseFrameName ==
    pc = "return" =>
        LET w == WorkingName(frame_name) IN
        /\ (parsed = None) <=> (~StartsWith(w, prefix) \/ NoChar(w, "_"))
        /\ parsed # None =>
            /\ Len(parsed) = 3
            /\ IF NoChar(frame_name, "-")
               THEN parsed[3] = None
               ELSE parsed[3] # None /\ frame_name = w \o << "-" >> \o parsed[3]
            /\ NoChar(parsed[1], "_")
            /\ \E k \in 0..Len(w) :
                LET part0 == SubSeq(w, 1, k) IN
                /\ NoChar(part0, "_")
                /\ IF parsed[2] = None
                   THEN w = part0 \o << "_" >> \o parsed[1]
                   ELSE w = part0 \o << "_" >> \o parsed[1] \o << "_" >> \o parsed[2]
        /\ (frame_name = KBC_12_KYT_en /\ prefix = KBC) =>
                parsed = << << "1", "2" >>, KYT, << "e", "n" >> >>
        /\ (frame_name = KBC_7 /\ prefix = KBC) => parsed = << << "7" >>, None, None >>
        /\ (frame_name = Other_1_X /\ prefix = KBC) => parsed = None

\* the first example of the claim, parsed
C6_Witness ==
    /\ pc = "return"
    /\ frame_name = KBC_12_KYT_en /\ prefix = KBC
    /\ parsed = << << "1", "2" >>, KYT, << "e", "n" >> >>

-----------------------------------------------------------------------------
(* Claims about the tree walk *)

\* the proper descendants of the nodes whose children lists are cs, depth
\* first, a node before its children, siblings in list order
RECURSIVE PreOrder(_, _)
PreOrder(nd, cs) ==
    IF cs = << >> THEN << >>
    ELSE << Head(cs) >> \o PreOrder(nd, Children(nd, Head(cs))) \o PreOrder(nd, Tail(cs))

RECURSIVE DocumentOrderFrom(_, _)
DocumentOrderFrom(nd, d) ==
    IF d > Len(Documents) THEN << >>
    ELSE PreOrder(nd, Children(nd, Documents[d])) \o DocumentOrderFrom(nd, d + 1)

DocumentOrder(nd) == DocumentOrderFrom(nd, 1)

\* the (themeNumber, keySlot) pair node x parses to, None when it does not match
PairOf(x) ==
    LET p == parse_frame_name(Name(nodes, x), prefix)
    IN  IF p = None THEN None ELSE << p[1], p[2] >>

\* the record the walk builds from node x alone
RecordOf(x) ==
    ThemeRecord(parse_frame_name(Name(nodes, x), prefix)[3],
                Fills(nodes, x), Strokes(nodes, x))

TablePairs(t) ==
    UNION { { << t[i].num, k >> : k \in DOMAIN t[i].keys } : i \in 1..Len(t) }

\* the last position of document order whose node parses to pair
LastWith(order, pair) ==
    CHOOSE j \in 1..Len(order) :
        /\ PairOf(order[j]) = pair
        /\ \A k \in (j + 1)..Len(order) : PairOf(order[k]) # pair

\* C1: at the end of a walk the record stored for a (themeNumber, keySlot) pair
\* is the record built from the last node, in depth-first parent-before-children
\* document order, that parses to the pair: none of an earlier node's fields stay.
C1_LastWriteWins ==
    pc = "done" =>
        \A pair \in TablePairs(themes) :
            LET order == DocumentOrder(nodes) IN
            /\ \E j \in 1..Len(order) : PairOf(order[j]) = pair
            /\ Keys(themes, pair[1])[pair[2]] = RecordOf(order[LastWith(order, pair)])

\* two nodes with the same pair and different records, the one later in document
\* order having the smaller number, and the table holds the later one's record
C1_Witness ==
    /\ pc = "done"
    /\ \E x \in Frames(nodes), y \in Frames(nodes) :
        /\ y < x
        /\ PairOf(x) # None /\ PairOf(x) = PairOf(y)
        /\ RecordOf(x) # RecordOf(y)
        /\ \E i \in 1..Len(visited), j \in 1..Len(visited) :
                i < j /\ visited[i] = x /\ visited[j] = y
        /\ PairOf(x) \in TablePairs(themes)
        /\ Keys(themes, PairOf(x)[1])[PairOf(x)[2]] = RecordOf(y)

\* C10: the walk runs the loop body on every frame below a document exactly
\* once, in pre-order, whether or not a frame's own name matched; so the table
\* holds a pair exactly when some frame parses to it.
C10_WalkComplete ==
    pc = "done" =>
        /\ visited = DocumentOrder(nodes)
        /\ Len(visited) = Cardinality(Frames(nodes))
        /\ \A x \in Frames(nodes) : \E i \in 1..Len(visited) : visited[i] = x
        /\ TablePairs(themes) = { PairOf(x) : x \in Frames(nodes) } \ { None }

\* a frame whose name does not match, below it a frame whose name does, and the
\* table holds the lower frame's pair
C10_Witness ==
    /\ pc = "done"
    /\ \E x \in Frames(nodes), y \in Frames(nodes) :
        /\ nodes.parent[y] = x
        /\ PairOf(x) = None
        /\ PairOf(y) # None
        /\ PairOf(y) \in TablePairs(themes)
        /\ \E z \in Frames(nodes) : z # y /\ nodes.parent[z] = y

-----------------------------------------------------------------------------
(* Claims about the projectors *)

\* the gradient pair of the theme's root slot, None when the slot is missing or
\* its fill did not resolve to a gradient
RootGradient(keys) == SlotField(keys, None, "gradient_colors")

\* the stroke gradient pair of slot "KYBG", None when the slot is missing or its
\* stroke did not resolve to a gradient
KeyStrokeGradient(keys) == SlotField(keys, KYBG, "s_gradient_colors")

\* C2: no projector raises on a table of the walk, whatever slots or colours are
\* missing, and every row it returns has exactly the columns of its schema.
C2_MissingSlotValueNeverRaises ==
    \A p \in DOMAIN rows :
        /\ rows[p].error = "none"
        /\ Len(rows[p].rows) = Len(themes)
        /\ \A i \in 1..Len(rows[p].rows) :
                DOMAIN rows[p].rows[i] = Range(HeadersOf(p))

\* C3: the BorderThemeGradient row of a theme without a stroke gradient on
\* "KYBG" (slot missing, or present without one) has both border colours
\* 0xFFFFFF; with a stroke gradient (start, end) it has start and end.
C3_BorderDefaultsToWhite ==
    Ran("BorderThemeGradient") =>
        \A i \in 1..Len(themes) :
            LET row == rows["BorderThemeGradient"].rows[i]
                sg  == KeyStrokeGradient(themes[i].keys)
            IN  IF sg = None
                THEN row.KeyBorderStartColor = White /\ row.KeyBorderEndColor = White
                ELSE row.KeyBorderStartColor = sg[1] /\ row.KeyBorderEndColor = sg[2]

\* the fields Gradient and Radial rows share besides the background pair
SharedColorFields ==
    {"KeyTextColor", "KeyBackgroundColor", "PredictionBarStartColor", "PredictionBarEndColor"}

\* C8: for a theme whose root slot has the gradient pair (g0, g1), the Gradient
\* row has start = g1 and end = g0 and the Radial row of the same table has
\* start = g0 and end = g1; the other colour fields of the two rows are equal,
\* ThemeName too unless it is defaulted, and ID and the ThemeName default are the
\* same theme number behind the projector's own tag.  A theme with a gradient
\* pair never makes either projector raise.
C8_GradientReversedRadialNot ==
    \A i \in 1..Len(themes) :
        LET keys == themes[i].keys
            num  == themes[i].num
            g    == RootGradient(keys)
        IN  g # None =>
            /\ ~BackgroundRaises(keys)
            /\ GradientRow(num, keys).KeyboardBackgroundStartColor = g[2]
            /\ GradientRow(num, keys).KeyboardBackgroundEndColor = g[1]
            /\ (Ran("Gradient") /\ rows["Gradient"].error = "none") =>
                /\ rows["Gradient"].rows[i].KeyboardBackgroundStartColor = g[2]
                /\ rows["Gradient"].rows[i].KeyboardBackgroundEndColor = g[1]
                /\ rows["Gradient"].rows[i].ID = IdOf(KBG, num)
            /\ (Ran("Radial") /\ rows["Radial"].error = "none") =>
                /\ rows["Radial"].rows[i].KeyboardBackgroundStartColor = g[1]
                /\ rows["Radial"].rows[i].KeyboardBackgroundEndColor = g[2]
                /\ rows["Radial"].rows[i].ID = IdOf(KBR, num)
            /\ (/\ Ran("Gradient") /\ rows["Gradient"].error = "none"
                /\ Ran("Radial") /\ rows["Radial"].error = "none") =>
                LET gr == rows["Gradient"].rows[i]
                    rr == rows["Radial"].rows[i]
                IN  /\ DOMAIN gr = DOMAIN rr
                    /\ \A f \in SharedColorFields : gr[f] = rr[f]
                    /\ IF Truthy(SlotField(keys, None, "localized_name"))
                       THEN gr.ThemeName = rr.ThemeName
                       ELSE gr.ThemeName = gr.ID /\ rr.ThemeName = rr.ID

\* both projectors have returned rows for a table whose theme has a root
\* gradient of two different colours: the two rows hold the pair in opposite order
C8_Witness ==
    /\ Ran("Gradient") /\ rows["Gradient"].error = "none"
    /\ Ran("Radial") /\ rows["Radial"].error = "none"
    /\ \E i \in 1..Len(themes) :
        LET g == RootGradient(themes[i].keys) IN
        /\ g # None
        /\ g[1] # g[2]
        /\ rows["Gradient"].rows[i].KeyboardBackgroundStartColor = g[2]
        /\ rows["Radial"].rows[i].KeyboardBackgroundStartColor = g[1]
        /\ KYT \in DOMAIN themes[i].keys

-----------------------------------------------------------------------------
(* Claims about write_csv *)

IndexPermutations(n) == { f \in [1..n -> 1..n] : \A i, j \in 1..n : f[i] = f[j] => i = j }

\* the cells of row under hdrs: the row's value, empty for None or a missing key
CellsOf(row, hdrs) ==
    [j \in 1..Len(hdrs) |-> IF hdrs[j] \in DOMAIN row /\ row[hdrs[j]] # None
                            THEN row[hdrs[j]] ELSE << >>]

\* C4: write_csv writes the header and then one line per row, the lines being
\* the rows' cells in headers order, a permutation of the input, in ascending
\* order of ID compared as strings (KBC_1 before KBC_10 before KBC_2).
C4_RowsSortedByIdString ==
    (pc = "return" /\ error = "none") =>
        /\ file.exists
        /\ file.header = headers
        /\ Len(file.lines) = Len(data)
        /\ \E f \in IndexPermutations(Len(data)) :
                \A i \in 1..Len(data) : file.lines[i] = CellsOf(data[f[i]], headers)
        /\ \A i, j \in 1..Len(file.lines) :
                i < j =>
                    /\ ~StrLess(file.lines[j][1], file.lines[i][1])
                    /\ ~(file.lines[i][1] = KBC_2 /\ file.lines[j][1] = KBC_10)
                    /\ ~(file.lines[i][1] = KBC_10 /\ file.lines[j][1] = KBC_1)

\* the rows come in as KBC_2, KBC_10 and are written as KBC_10, KBC_2
C4_Witness ==
    /\ pc = "return" /\ error = "none"
    /\ Len(data) = 2
    /\ data[1].ID = KBC_2 /\ data[2].ID = KBC_10
    /\ Len(file.lines) = 2
    /\ file.lines[1][1] = KBC_10 /\ file.lines[2][1] = KBC_2

LacksHeader(row, hdrs) == \E j \in 1..Len(hdrs) : hdrs[j] \notin DOMAIN row

\* C9 as stated: a row lacking a key for any header makes write_csv fail
C9_MissingHeaderKeyIsError ==
    (pc = "return" /\ \E i \in 1..Len(data) : LacksHeader(data[i], headers)) =>
        error # "none"

\* C9 as amended: a row without "ID" makes write_csv fail with KeyError before
\* the file is opened; when every row has "ID" (and no key outside headers), a
\* row lacking any other header key is written, with an empty cell in that column.
C9_OnlyMissingIdIsError ==
    pc = "return" =>
        /\ (\E i \in 1..Len(data) : "ID" \notin DOMAIN data[i]) =>
                error = "KeyError" /\ ~file.exists
        /\ (\A i \in 1..Len(data) :
                "ID" \in DOMAIN data[i] /\ ~HasExtraKey(data[i], headers)) =>
                /\ error = "none"
                /\ file.exists
                /\ \E f \in IndexPermutations(Len(data)) :
                      \A i \in 1..Len(data) :
                        /\ Len(file.lines[i]) = Len(headers)
                        /\ file.lines[i][1] = data[f[i]].ID
                        /\ \A j \in 1..Len(headers) :
                              headers[j] \notin DOMAIN data[f[i]] => file.lines[i][j] = << >>

\* a row with an ID and no ThemeName is written, its ThemeName cell empty
C9_Witness ==
    /\ pc = "return" /\ error = "none" /\ file.exists
    /\ Len(data) = 1
    /\ DOMAIN data[1] = {"ID", "KeyTextColor"}
    /\ file.lines = << << data[1].ID, << >>, data[1].KeyTextColor >> >>

-----------------------------------------------------------------------------
(* Claims about main *)

\* the output files of the statements before statement k
FilesBefore(k) == { OutputFiles[i] : i \in 1..(k - 1) }

\* the run is over: main returned, or an exception left it
RunEnded == pc \in { "done", "aborted" }

=============================================================================
